---- MODULE Spec2Model ----
(***************************************************************************)
(* Model of the unitree go2 simulator.                                     *)
(*                                                                         *)
(*   go2_simulation/go2_sim.py     the ROS node Go2Simulator: __init__,    *)
(*                                 init_pybullet, update_state (timer      *)
(*                                 callback), apply_cmd (subscription      *)
(*                                 callback), get_joint_id, main           *)
(*   go2_simulation/simulators.py  the two backends SimpleSimulator and    *)
(*                                 BulletSimulator: execute_step, the      *)
(*                                 joint map of BulletSimulator, the       *)
(*                                 collision pair pruning of init_simple   *)
(*                                                                         *)
(* Python indices are kept 0-based (joint_idx in 0..11, engine joint       *)
(* handles in 0..num_joints-1); TLA+ sequences are 1-based, so the python  *)
(* list element x[i] is the sequence element x[i+1].                       *)
(***************************************************************************)
EXTENDS Integers, Sequences, FiniteSets, TLC

(***************************************************************************)
(* Bounds of the model                                                     *)
(***************************************************************************)
\* timer ticks delivered to update_state
MaxTicks == 3
\* LowCmd messages delivered to the subscription
MaxArrivals == 3
\* seeds of the vectors handed to the backends' execute_step
MaxSeed == 1
\* execute_step calls made on each backend
MaxPdSteps == 2
\* constructions of the joint map against one loaded description
MaxBuilds == 2
\* length of the collision pair list the pruning loop starts from
MaxPairs == 3

(***************************************************************************)
(* Program constants                                                       *)
(***************************************************************************)
\* go2_sim.py:68, 80  range(12)
NJoints == 12
\* go2_sim.py:53  for _ in range(40): p.stepSimulation()
InitSteps == 40
\* go2_sim.py:25  create_subscription(..., 10): queue depth, keep last
QueueDepth == 10
\* go2_sim.py:70  state_msg.motor_state[joint_idx].mode = 1
StateMode == 1

\* python None, as returned by get_joint_id for a name the engine does not
\* know; engine handles are 0..num_joints-1, so -1 is no handle.
None == -1
\* a non-finite float (nan) carried by a command field
NaN == 99999

\* go2_sim.py:56, simulators.py:112  the canonical joint order
joint_order ==
  << "FR_hip_joint", "FR_thigh_joint", "FR_calf_joint",
     "FL_hip_joint", "FL_thigh_joint", "FL_calf_joint",
     "RR_hip_joint", "RR_thigh_joint", "RR_calf_joint",
     "RL_hip_joint", "RL_thigh_joint", "RL_calf_joint" >>

JointIdx == 0 .. (NJoints - 1)

(***************************************************************************)
(* Robot descriptions the robot_path parameter can name.  The engine       *)
(* numbers the joints in the order of the description, which is not the    *)
(* canonical order and holds fixed joints (feet, imu) as well.             *)
(***************************************************************************)
Go2Urdf ==
  << "FL_hip_joint", "FL_thigh_joint", "FL_calf_joint", "FL_foot_joint",
     "FR_hip_joint", "FR_thigh_joint", "FR_calf_joint", "FR_foot_joint",
     "RL_hip_joint", "RL_thigh_joint", "RL_calf_joint", "RL_foot_joint",
     "RR_hip_joint", "RR_thigh_joint", "RR_calf_joint", "RR_foot_joint",
     "imu_joint" >>

IsNotRLCalf(n) == n # "RL_calf_joint"

\* the same description without the joint "RL_calf_joint"
Go2UrdfNoRLCalf == SelectSeq(Go2Urdf, IsNotRLCalf)

\* a description that lists the twelve actuated joints in canonical order
CanonicalUrdf == joint_order

Descriptions == { Go2Urdf, Go2UrdfNoRLCalf, CanonicalUrdf }

\* what init_pybullet's try block can raise: nothing, the engine connection
\* (p.connect), the robot description load (p.loadURDF)
InitFailures == { "none", "connect", "loadURDF" }

Min(S) == CHOOSE x \in S : \A y \in S : x <= y

VARIABLES
  phase,          \* "Uninitialized", "Ready", "Running", "Stopped"
  initError,      \* what init_pybullet caught and logged ("none" if nothing)
  urdf,           \* joint names of the loaded robot, in engine order
  has_j_idx,      \* whether the attribute self.j_idx was assigned
  j_idx,          \* self.j_idx: engine handle (or None) per canonical joint
  last_msg,       \* self.last_msg
  has_last_msg_time, \* whether the attribute self.last_msg_time exists
  steps,          \* number of p.stepSimulation() calls so far
  motors,         \* engine joint motor per handle: [mode, q, dq]
  queue,          \* LowCmd messages waiting in the subscription
  arrived,        \* number of LowCmd messages received so far
  consumed,       \* messages apply_cmd was called with, in order
  stepLog,        \* per physics step of apply_cmd: the targets in force
  ticks,          \* number of update_state calls
  published,      \* LowState messages handed to publisher_state.publish
  pub_steps,      \* the step count each publication observed
  slept,          \* durations handed to time.sleep
  cmd_times,      \* current_msg_time of each apply_cmd call, in order
  clock,          \* self.get_clock().now(): callbacks run so far
  last_msg_time,  \* value of self.last_msg_time when the attribute exists
  fault,          \* exception that escaped a callback ("none" if none)
  \* ---- the two backends of simulators.py, driven side by side ----
  pd_args,        \* the arguments of execute_step: tau_des, q_des, v_des, kp_des, kd_des
  simple_q,       \* SimpleSimulator: simulator.get_state()[0], 7 base + 12 joints
  simple_v,       \* SimpleSimulator: simulator.get_state()[1], 6 base + 12 joints
  simple_pre,     \* SimpleSimulator: the state its last execute_step started from
  simple_torque,  \* SimpleSimulator: torque_simu of the last simulator.execute
  simple_steps,   \* SimpleSimulator: number of simulator.execute calls
  bullet_j_idx,   \* BulletSimulator: self.j_idx
  bullet_js,      \* BulletSimulator: engine joint state per handle: [q, v]
  bullet_pre,     \* BulletSimulator: the state its last execute_step started from
  bullet_forces,  \* BulletSimulator: TORQUE_CONTROL force per handle
  bullet_steps,   \* BulletSimulator: number of pybullet.stepSimulation calls
  engine_stable,  \* whether the simulated world stays finite whatever is applied
  simple_names,   \* SimpleSimulator: joint names of rmodel, in the model's order
  simple_calls,   \* SimpleSimulator: number of execute_step calls
  bullet_calls,   \* BulletSimulator: number of execute_step calls
  bullet_desc,    \* BulletSimulator: joint names of the loaded robot, engine order
  bullet_first_j_idx, \* BulletSimulator: self.j_idx as first built
  bullet_builds,  \* BulletSimulator: number of times the joint map was built
  \* ---- the collision pair pruning of SimpleSimulator.init_simple ----
  pairs0,         \* geom_model.collisionPairs when the loop starts
  collisionPairs, \* geom_model.collisionPairs
  prune_i,        \* the loop index i
  prune_pc        \* "idle", "loop" (at the while condition), "done"

nodeVars ==
  << phase, initError, urdf, has_j_idx, j_idx, last_msg, has_last_msg_time,
     steps, motors, queue, arrived, consumed, stepLog, ticks, published,
     pub_steps, slept, cmd_times, clock, last_msg_time, fault >>

pdVars ==
  << pd_args, simple_q, simple_v, simple_pre, simple_torque, simple_steps,
     bullet_j_idx, bullet_js, bullet_pre, bullet_forces, bullet_steps,
     engine_stable, simple_names, simple_calls, bullet_calls, bullet_desc,
     bullet_first_j_idx, bullet_builds >>

pruneVars == << pairs0, collisionPairs, prune_i, prune_pc >>

vars == << nodeVars, pdVars, pruneVars >>


(***************************************************************************)
(* LowCmd messages.  A message is identified by its arrival number id; its *)
(* fields are a fixed function of the id and the joint, distinct for       *)
(* distinct (id, joint, field), so that a target found in the engine names *)
(* the message it came from.  kind "valid" carries finite targets for the  *)
(* twelve joints, "short" carries eleven entries, "nan" carries a          *)
(* non-finite target position for joint 0.                                 *)
(***************************************************************************)
CmdKinds == { "valid", "short", "nan" }

MsgQ(id, i) == id * 100 + i

MsgDq(id, i) == id * 100 + 50 + i

MsgTau(id, i) == id * 10 + i

MsgKp(id, i) == id + 1

MsgKd(id, i) == id + 2

MotorCmd(id, kind, i) ==
  [ q   |-> IF kind = "nan" /\ i = 0 THEN NaN ELSE MsgQ(id, i),
    dq  |-> MsgDq(id, i),
    tau |-> MsgTau(id, i),
    kp  |-> MsgKp(id, i),
    kd  |-> MsgKd(id, i) ]

MakeCmd(id, kind) ==
  [ id        |-> id,
    kind      |-> kind,
    motor_cmd |-> [ k \in 1 .. (IF kind = "short" THEN NJoints - 1 ELSE NJoints)
                      |-> MotorCmd(id, kind, k - 1) ] ]

\* a command that is not twelve finite joint entries
Malformed(msg) ==
  \/ Len(msg.motor_cmd) # NJoints
  \/ \E k \in 1 .. Len(msg.motor_cmd) :
       msg.motor_cmd[k].q = NaN \/ msg.motor_cmd[k].dq = NaN

(***************************************************************************)
(* The engine (pybullet) as the node uses it                               *)
(***************************************************************************)
\* the motor every joint of a freshly loaded body has
DefaultMotor == [ mode |-> "VELOCITY_CONTROL", q |-> 0, dq |-> 0 ]

\* p.getJointState(robot, h)[0] and [1] after s physics steps: the engine's
\* integration is outside the program; the readout is a fixed function of
\* the handle and the step count, distinct for distinct handles and steps.
EngineQ(h, s) == 1000 * (h + 1) + s

EngineDq(h, s) == -(1000 * (h + 1) + s)

\* p.getBasePositionAndOrientation(robot)[1] after s steps
EngineQuat(s) == << 0, 0, 0, 1 >>

\* Go2Simulator.get_joint_id: the first engine joint whose name is
\* joint_name, None when the loop finds none
get_joint_id(desc, joint_name) ==
  LET hits == { i \in 0 .. (Len(desc) - 1) : desc[i + 1] = joint_name }
  IN  IF hits = {} THEN None ELSE Min(hits)

\* go2_sim.py:58-60  self.j_idx, one entry per canonical joint
BuildJIdx(desc) == [ k \in 1 .. NJoints |-> get_joint_id(desc, joint_order[k]) ]

(***************************************************************************)
(* Go2Simulator.__init__ with init_pybullet.  The whole body of            *)
(* init_pybullet is inside try/except: whatever it raises is logged and    *)
(* dropped, and __init__ goes on to set self.last_msg and returns.         *)
(***************************************************************************)
\* go2_sim.py:30  __init__ assigns self.last_msg; no line of the class
\* assigns self.last_msg_time
LastMsgTimeAssigned == FALSE

Go2Simulator_init ==
  /\ phase = "Uninitialized"
  /\ \E failure \in InitFailures, desc \in Descriptions :
       /\ initError' = failure
       /\ IF failure = "none"
          THEN /\ urdf' = desc
               /\ motors' = [ h \in 0 .. (Len(desc) - 1) |-> DefaultMotor ]
               /\ steps' = InitSteps
               /\ has_j_idx' = TRUE
               /\ j_idx' = BuildJIdx(desc)
          ELSE \* the exception leaves the try block before line 46 assigns
               \* the robot and before line 58 assigns self.j_idx
               /\ urdf' = << >>
               /\ motors' = << >>
               /\ steps' = 0
               /\ has_j_idx' = FALSE
               /\ j_idx' = << >>
  /\ last_msg' = None
  /\ phase' = "Ready"
  /\ has_last_msg_time' = LastMsgTimeAssigned
  /\ UNCHANGED << queue, arrived, consumed, stepLog, ticks, published,
                  pub_steps, slept, cmd_times, clock, last_msg_time, fault >>
  /\ UNCHANGED << pdVars, pruneVars >>

\* main: the constructor returned, rclpy.spin(go2_simulation) is entered and
\* the timer and the subscription start to deliver callbacks
Spin ==
  /\ phase = "Ready"
  /\ phase' = "Running"
  /\ UNCHANGED << initError, urdf, has_j_idx, j_idx, last_msg, has_last_msg_time,
                  steps, motors, queue, arrived, consumed, stepLog, ticks,
                  published, pub_steps, slept, cmd_times, clock, last_msg_time,
                  fault >>
  /\ UNCHANGED << pdVars, pruneVars >>

\* a LowCmd message reaches the subscription (depth QueueDepth, keep last:
\* a full queue drops its oldest message)
CmdArrive ==
  /\ phase \in { "Ready", "Running" }
  /\ arrived < MaxArrivals
  /\ \E kind \in CmdKinds :
       LET msg == MakeCmd(arrived + 1, kind)
       IN  queue' = IF Len(queue) = QueueDepth
                    THEN Append(Tail(queue), msg)
                    ELSE Append(queue, msg)
  /\ arrived' = arrived + 1
  /\ UNCHANGED << phase, initError, urdf, has_j_idx, j_idx, last_msg,
                  has_last_msg_time, steps, motors, consumed, stepLog, ticks,
                  published, pub_steps, slept, cmd_times, clock, last_msg_time,
                  fault >>
  /\ UNCHANGED << pdVars, pruneVars >>

(***************************************************************************)
(* Go2Simulator.update_state, the timer callback                           *)
(***************************************************************************)
\* what line 69 raises for joint_idx i: self.j_idx is evaluated first
\* (AttributeError when init_pybullet never assigned it), then
\* p.getJointState refuses a handle that is None (TypeError)
StateFaultAt(i) ==
  IF ~has_j_idx THEN "AttributeError"
  ELSE IF j_idx[i + 1] = None THEN "TypeError"
  ELSE "none"

\* the LowState message built by lines 67-75
BuildState ==
  [ motor_state |-> [ k \in 1 .. NJoints |->
                        [ mode |-> StateMode,
                          q    |-> EngineQ(j_idx[k], steps),
                          dq   |-> EngineDq(j_idx[k], steps) ] ],
    quaternion  |-> EngineQuat(steps) ]

\* the step count after update_state: lines 66-76 read and publish, they
\* hold no p.stepSimulation() call
StepsAfterTick_Stepping(s) == s + 1

StepsAfterTick(s) == s

\* an exception that leaves a callback leaves rclpy.spin and main (main
\* catches ROSInterruptException only): the process ends
UpdateState ==
  /\ phase = "Running"
  /\ ticks < MaxTicks
  /\ ticks' = ticks + 1
  /\ clock' = clock + 1
  /\ LET bad == { i \in JointIdx : StateFaultAt(i) # "none" }
     IN  IF bad = {}
         THEN /\ published' = Append(published, BuildState)
              /\ pub_steps' = Append(pub_steps, steps)
              /\ UNCHANGED << phase, fault >>
         ELSE /\ fault' = StateFaultAt(Min(bad))
              /\ phase' = "Stopped"
              /\ UNCHANGED << published, pub_steps >>
  /\ steps' = StepsAfterTick(steps)
  /\ UNCHANGED << initError, urdf, has_j_idx, j_idx, last_msg, has_last_msg_time,
                  motors, queue, arrived, consumed, stepLog, slept, cmd_times,
                  last_msg_time >>
  /\ UNCHANGED << pdVars, pruneVars >>

(***************************************************************************)
(* Go2Simulator.apply_cmd, the subscription callback                       *)
(***************************************************************************)
\* what the loop body raises for joint_idx i: line 81 indexes the message
\* (IndexError), line 83 reads self.j_idx (AttributeError), line 86 hands the
\* handle to p.setJointMotorControl2 (TypeError for None)
CmdFaultAt(msg, i) ==
  IF i >= Len(msg.motor_cmd) THEN "IndexError"
  ELSE IF ~has_j_idx THEN "AttributeError"
  ELSE IF j_idx[i + 1] = None THEN "TypeError"
  ELSE "none"

\* the first joint_idx at which the loop of lines 80-92 raises, NJoints when
\* the loop completes
CmdFaultIndex(msg) ==
  LET bad == { i \in JointIdx : CmdFaultAt(msg, i) # "none" }
  IN  IF bad = {} THEN NJoints ELSE Min(bad)

\* the motors after the loop has run for joint_idx 0 .. n-1
MotorsAfter(msg, n) ==
  [ h \in DOMAIN motors |->
      IF \E i \in 0 .. (n - 1) : j_idx[i + 1] = h
      THEN LET i == CHOOSE i \in 0 .. (n - 1) : j_idx[i + 1] = h
           IN  [ mode |-> "POSITION_CONTROL",
                 q    |-> msg.motor_cmd[i + 1].q,
                 dq   |-> msg.motor_cmd[i + 1].dq ]
      ELSE motors[h] ]

\* go2_sim.py:25  the subscription hands its waiting messages to apply_cmd
\* oldest first
NextMsg_Newest(q) == q[Len(q)]

NextMsg(q) == Head(q)

\* go2_sim.py:94  p.stepSimulation(): one physics step
StepSimulation_Skip(s) == s

StepSimulation_Twice(s) == s + 2

StepSimulation(s) == s + 1

\* the position and velocity targets in force for the twelve canonical joints
TargetsOf(m) ==
  [ k \in 1 .. NJoints |-> [ q |-> m[j_idx[k]].q, dq |-> m[j_idx[k]].dq ] ]

ApplyCmd ==
  /\ phase = "Running"
  /\ queue # << >>
  /\ LET msg == NextMsg(queue)
         n   == CmdFaultIndex(msg)
     IN  /\ queue' = Tail(queue)
         /\ consumed' = Append(consumed, msg)
         \* line 79
         /\ cmd_times' = Append(cmd_times, clock)
         /\ clock' = clock + 1
         /\ motors' = MotorsAfter(msg, n)
         /\ IF n < NJoints
            THEN \* the loop raised: no physics step
                 /\ fault' = CmdFaultAt(msg, n)
                 /\ phase' = "Stopped"
                 /\ UNCHANGED << steps, stepLog, slept >>
            ELSE \* line 94
                 /\ steps' = StepSimulation(steps)
                 /\ stepLog' = Append(stepLog, TargetsOf(MotorsAfter(msg, n)))
                 /\ IF has_last_msg_time
                    THEN \* lines 95-96
                         /\ slept' = Append(slept, clock - last_msg_time)
                         /\ UNCHANGED << phase, fault >>
                    ELSE \* line 95 reads an attribute nothing assigned
                         /\ fault' = "AttributeError"
                         /\ phase' = "Stopped"
                         /\ UNCHANGED slept
  /\ UNCHANGED << initError, urdf, has_j_idx, j_idx, last_msg, has_last_msg_time,
                  arrived, ticks, published, pub_steps, last_msg_time >>
  /\ UNCHANGED << pdVars, pruneVars >>


(***************************************************************************)
(* simulators.py: SimpleSimulator.execute_step and                         *)
(* BulletSimulator.execute_step.  Reals are modelled by integers: the      *)
(* arithmetic of the torque law is exact here, float rounding is not       *)
(* modelled.  The integration of the world by Simulation.execute and       *)
(* pybullet.stepSimulation is outside the program: the joint state after a *)
(* step is any state of the bounded family StateOf.                        *)
(***************************************************************************)
Seeds == 0 .. MaxSeed

\* simulators.py:24  self.njoints = self.rmodel.nv - 6
Nv == NJoints + 6

\* simulators.py:53  initial_q: 7 coordinates of the free-flyer base, then the joints
Nq == NJoints + 7

TauVec(s)  == [ k \in 1 .. NJoints |-> 3 * s + k ]

QDesVec(s) == [ k \in 1 .. NJoints |-> 2 * s - k ]

VDesVec(s) == [ k \in 1 .. NJoints |-> s + (k % 3) ]

KpVec(s)   == [ k \in 1 .. NJoints |-> s * (1 + (k % 2)) ]

KdVec(s)   == [ k \in 1 .. NJoints |-> s * (1 + (k % 3)) ]

\* a joint state: positions and velocities of the twelve joints
StateOf(s) ==
  [ q |-> [ k \in 1 .. NJoints |-> 5 * s + 2 * k ],
    v |-> [ k \in 1 .. NJoints |-> k - 4 * s ] ]

\* the joint state of a world whose integration has diverged: every
\* position and velocity is non-finite
NaNState ==
  [ q |-> [ k \in 1 .. NJoints |-> NaN ],
    v |-> [ k \in 1 .. NJoints |-> NaN ] ]

Finite(st) ==
  \A k \in 1 .. NJoints : st.q[k] # NaN /\ st.v[k] # NaN

\* the joint states one integration step can leave behind: a non-finite
\* state stays non-finite; a finite one goes to any state of the family and,
\* unless the world is numerically stable, possibly to the non-finite one
StatesAfterStep(st) ==
  IF ~Finite(st) THEN { NaNState }
  ELSE { StateOf(s) : s \in Seeds }
         \cup (IF engine_stable THEN { } ELSE { NaNState })

BasePose == << 0, 0, 0, 0, 0, 0, 1 >>

BaseVel == << 0, 0, 0, 0, 0, 0 >>

IsActuated(n) == \E k \in 1 .. NJoints : joint_order[k] = n

\* simulators.py:21-22  the joints of robot.model in the model's own order:
\* the actuated joints of the go2 description, in description order
SimpleNativeOrder == SelectSeq(Go2Urdf, IsActuated)

\* the orders in which a dynamics model can number the twelve joints
SimpleOrders == { SimpleNativeOrder, joint_order }

\* simulators.py:78  tau_cmd, computed from q_current[7:] and v_current[6:]
SimpleTauCmd(tau_des, q_des, v_des, kp_des, kd_des, q_current, v_current) ==
  [ k \in 1 .. NJoints |->
      tau_des[k] - (q_current[7 + k] - q_des[k]) * kp_des[k]
                 - (v_current[6 + k] - v_des[k]) * kd_des[k] ]

\* simulators.py:83  self.simulator.execute(torque_simu), called once: the
\* count of Simulation.execute calls, each of which integrates the world
\* over the timestep given at construction
SimulationExecute(n) == n + 1

\* simulators.py:75-83
SimpleExecuteStep ==
  /\ simple_calls < MaxPdSteps
  /\ simple_calls' = simple_calls + 1
  /\ LET tau_cmd == SimpleTauCmd(pd_args.tau_des, pd_args.q_des, pd_args.v_des,
                                 pd_args.kp_des, pd_args.kd_des, simple_q, simple_v)
     IN  simple_torque' = [ k \in 1 .. Nv |-> IF k <= 6 THEN 0 ELSE tau_cmd[k - 6] ]
  /\ simple_pre' = [ q |-> SubSeq(simple_q, 8, Nq), v |-> SubSeq(simple_v, 7, Nv) ]
  /\ simple_steps' = SimulationExecute(simple_steps)
  /\ \E st \in StatesAfterStep([ q |-> SubSeq(simple_q, 8, Nq),
                                v |-> SubSeq(simple_v, 7, Nv) ]) :
       /\ simple_q' = BasePose \o st.q
       /\ simple_v' = BaseVel \o st.v
  /\ UNCHANGED << pd_args, engine_stable, simple_names, bullet_desc,
                  bullet_j_idx, bullet_first_j_idx, bullet_builds, bullet_js,
                  bullet_pre, bullet_forces, bullet_steps, bullet_calls >>
  /\ UNCHANGED << nodeVars, pruneVars >>

\* simulators.py:137-143  BulletSimulator.get_joint_id
bullet_get_joint_id(desc, joint_name) ==
  LET hits == { i \in 0 .. (Len(desc) - 1) : desc[i + 1] = joint_name }
  IN  IF hits = {} THEN None ELSE Min(hits)

\* simulators.py:116-117  one handle per canonical joint, in canonical order
BulletJIdx(desc) ==
  [ k \in 1 .. NJoints |-> bullet_get_joint_id(desc, joint_order[k]) ]

\* simulators.py:115  self.j_idx = []: the list the loop appends to
JIdxReset_Keep(old) == old

JIdxReset(old) == << >>

\* simulators.py:112-117  the joint map is built against the loaded robot
BulletBuildJointMap ==
  /\ bullet_builds < MaxBuilds
  /\ bullet_builds' = bullet_builds + 1
  /\ bullet_j_idx' = JIdxReset(bullet_j_idx) \o BulletJIdx(bullet_desc)
  /\ bullet_first_j_idx' =
       IF bullet_builds = 0 THEN bullet_j_idx' ELSE bullet_first_j_idx
  /\ UNCHANGED << pd_args, engine_stable, simple_names, simple_q, simple_v,
                  simple_pre, simple_torque, simple_steps, simple_calls,
                  bullet_desc, bullet_js, bullet_pre, bullet_forces,
                  bullet_steps, bullet_calls >>
  /\ UNCHANGED << nodeVars, pruneVars >>

\* the engine joint states in which the canonical joints, resolved by jx,
\* hold state st; the other joints of the description are fixed joints
BulletWorld(desc, jx, st) ==
  [ h \in 0 .. (Len(desc) - 1) |->
      IF \E k \in 1 .. NJoints : jx[k] = h
      THEN LET k == CHOOSE k \in 1 .. NJoints : jx[k] = h
           IN  [ q |-> st.q[k], v |-> st.v[k] ]
      ELSE [ q |-> 0, v |-> 0 ] ]

\* simulators.py:162-164  q and v, read through self.j_idx
BulletQ == [ k \in 1 .. NJoints |-> bullet_js[bullet_j_idx[k]].q ]

BulletV == [ k \in 1 .. NJoints |-> bullet_js[bullet_j_idx[k]].v ]

\* simulators.py:166  tau_cmd
BulletTauCmd_WrongSign(tau_des, q_des, v_des, kp_des, kd_des, q, v) ==
  [ k \in 1 .. NJoints |->
      tau_des[k] - (q[k] - q_des[k]) * kp_des[k] + (v[k] - v_des[k]) * kd_des[k] ]

BulletTauCmd(tau_des, q_des, v_des, kp_des, kd_des, q, v) ==
  [ k \in 1 .. NJoints |->
      tau_des[k] - (q[k] - q_des[k]) * kp_des[k] - (v[k] - v_des[k]) * kd_des[k] ]

\* simulators.py:177  pybullet.stepSimulation(): one physics step
BulletStepSimulation_Twice(n) == n + 2

BulletStepSimulation(n) == n + 1

\* simulators.py:160-177
BulletExecuteStep ==
  /\ bullet_calls < MaxPdSteps
  /\ bullet_calls' = bullet_calls + 1
  /\ LET tau_cmd == BulletTauCmd(pd_args.tau_des, pd_args.q_des, pd_args.v_des,
                                 pd_args.kp_des, pd_args.kd_des, BulletQ, BulletV)
     IN  bullet_forces' =
           [ h \in DOMAIN bullet_forces |->
               IF \E k \in 1 .. NJoints : bullet_j_idx[k] = h
               THEN tau_cmd[CHOOSE k \in 1 .. NJoints : bullet_j_idx[k] = h]
               ELSE bullet_forces[h] ]
  /\ bullet_pre' = [ q |-> BulletQ, v |-> BulletV ]
  /\ bullet_steps' = BulletStepSimulation(bullet_steps)
  /\ \E st \in StatesAfterStep([ q |-> BulletQ, v |-> BulletV ]) :
       bullet_js' = BulletWorld(bullet_desc, bullet_j_idx, st)
  /\ UNCHANGED << pd_args, engine_stable, simple_names, simple_q, simple_v,
                  simple_pre, simple_torque, simple_steps, simple_calls,
                  bullet_desc, bullet_j_idx, bullet_first_j_idx,
                  bullet_builds >>
  /\ UNCHANGED << nodeVars, pruneVars >>

\* the arguments of execute_step built from five seeds
ArgsOf(a, b, c, d, e) ==
  [ tau_des |-> TauVec(a), q_des |-> QDesVec(b), v_des |-> VDesVec(c),
    kp_des |-> KpVec(d), kd_des |-> KdVec(e) ]

\* both backends constructed over the same joint state st, before any
\* execute_step
BackendsStart(args, st, names, stable) ==
  /\ pd_args = args
  /\ engine_stable = stable
  /\ simple_names = names
  /\ simple_q = BasePose \o st.q
  /\ simple_v = BaseVel \o st.v
  /\ simple_pre = << >>
  /\ simple_torque = [ k \in 1 .. Nv |-> 0 ]
  /\ simple_steps = 0
  /\ simple_calls = 0
  /\ bullet_desc = Go2Urdf
  /\ bullet_j_idx = BulletJIdx(Go2Urdf)
  /\ bullet_first_j_idx = BulletJIdx(Go2Urdf)
  /\ bullet_builds = 1
  /\ bullet_js = BulletWorld(Go2Urdf, BulletJIdx(Go2Urdf), st)
  /\ bullet_pre = << >>
  /\ bullet_forces = [ h \in 0 .. (Len(Go2Urdf) - 1) |-> 0 ]
  /\ bullet_steps = 0
  /\ bullet_calls = 0

\* the arguments of execute_step are drawn here; the world stays finite
PdInit ==
  \E a \in Seeds, b \in Seeds, c \in Seeds, d \in Seeds, e \in Seeds, s \in Seeds :
    BackendsStart(ArgsOf(a, b, c, d, e), StateOf(s), SimpleNativeOrder, TRUE)

\* the backends over either joint numbering of the dynamics model and over
\* a world whose integration can diverge
BackendsInit ==
  \E a \in Seeds, s \in Seeds, names \in SimpleOrders :
    BackendsStart(ArgsOf(a, a, a, a, a), StateOf(s), names, FALSE)

NodeInit ==
  /\ phase = "Uninitialized"
  /\ initError = "none"
  /\ urdf = << >>
  /\ has_j_idx = FALSE
  /\ j_idx = << >>
  /\ last_msg = None
  /\ has_last_msg_time = FALSE
  /\ steps = 0
  /\ motors = << >>
  /\ queue = << >>
  /\ arrived = 0
  /\ consumed = << >>
  /\ stepLog = << >>
  /\ ticks = 0
  /\ published = << >>
  /\ pub_steps = << >>
  /\ slept = << >>
  /\ cmd_times = << >>
  /\ clock = 0
  /\ last_msg_time = 0
  /\ fault = "none"

\* no backend of simulators.py is constructed; desc is the description an
\* engine has loaded
BackendsIdle(desc) ==
  /\ pd_args = << >>
  /\ engine_stable = TRUE
  /\ simple_names = << >>
  /\ simple_q = << >>
  /\ simple_v = << >>
  /\ simple_pre = << >>
  /\ simple_torque = << >>
  /\ simple_steps = 0
  /\ simple_calls = 0
  /\ bullet_desc = desc
  /\ bullet_j_idx = << >>
  /\ bullet_first_j_idx = << >>
  /\ bullet_builds = 0
  /\ bullet_js = << >>
  /\ bullet_pre = << >>
  /\ bullet_forces = << >>
  /\ bullet_steps = 0
  /\ bullet_calls = 0

PdIdle == BackendsIdle(<< >>)

(***************************************************************************)
(* simulators.py:58-65  SimpleSimulator.init_simple: the loop that removes *)
(* every collision pair that does not concern the floor                    *)
(***************************************************************************)
\* geom_model.geometryObjects after addFloor, by index (0-based): the names
GeometryObjects == << "base_0", "FL_calf_0", "floor" >>

GeomIdx == 0 .. (Len(GeometryObjects) - 1)

\* a CollisionPair names two distinct geometry objects
CollisionPairs ==
  { cp \in [ first : GeomIdx, second : GeomIdx ] : cp.first # cp.second }

\* the lists geom_model.collisionPairs can hold when the loop starts:
\* any order, duplicates included
PairLists == UNION { [ 1 .. n -> CollisionPairs ] : n \in 0 .. MaxPairs }

\* pinocchio compares collision pairs as unordered pairs
PairEq(a, b) ==
  \/ a.first = b.first /\ a.second = b.second
  \/ a.first = b.second /\ a.second = b.first

\* simulators.py:61  the condition under which the pair is removed
NotFloorPair_Or(cp) ==
  \/ GeometryObjects[cp.first + 1] # "floor"
  \/ GeometryObjects[cp.second + 1] # "floor"

NotFloorPair(cp) ==
  /\ GeometryObjects[cp.first + 1] # "floor"
  /\ GeometryObjects[cp.second + 1] # "floor"

\* simulators.py:62  geom_model.removeCollisionPair(cp): the first entry
\* equal to cp is erased, the list is left alone when there is none
removeCollisionPair_NoErase(list, cp) == list

removeCollisionPair(list, cp) ==
  LET hits == { j \in 1 .. Len(list) : PairEq(list[j], cp) }
  IN  IF hits = {} THEN list
      ELSE SubSeq(list, 1, Min(hits) - 1) \o SubSeq(list, Min(hits) + 1, Len(list))

\* one evaluation of the while condition of line 59 and, when it holds, of
\* the loop body (lines 60-64)
PruneLoop ==
  /\ prune_pc = "loop"
  /\ IF prune_i < Len(collisionPairs)
     THEN LET cp == collisionPairs[prune_i + 1]
          IN  IF NotFloorPair(cp)
              THEN /\ collisionPairs' = removeCollisionPair(collisionPairs, cp)
                   /\ UNCHANGED << prune_i, prune_pc >>
              ELSE /\ prune_i' = prune_i + 1
                   /\ UNCHANGED << collisionPairs, prune_pc >>
     ELSE /\ prune_pc' = "done"
          /\ UNCHANGED << collisionPairs, prune_i >>
  /\ UNCHANGED pairs0
  /\ UNCHANGED << nodeVars, pdVars >>

\* line 58: i = 0, over any initial list
PruneInit ==
  /\ \E l \in PairLists :
       /\ pairs0 = l
       /\ collisionPairs = l
  /\ prune_i = 0
  /\ prune_pc = "loop"

\* no SimpleSimulator is being constructed
PruneIdle ==
  /\ pairs0 = << >>
  /\ collisionPairs = << >>
  /\ prune_i = 0
  /\ prune_pc = "idle"

(***************************************************************************)
(* Specifications                                                          *)
(***************************************************************************)
Init == NodeInit /\ PdIdle /\ PruneIdle

Next ==
  \/ Go2Simulator_init
  \/ Spin
  \/ CmdArrive
  \/ UpdateState
  \/ ApplyCmd

Spec == Init /\ [][Next]_vars

\* the backends alone: execute_step called on each, from the same state
InitPD == NodeInit /\ PdInit /\ PruneIdle

NextPD ==
  \/ SimpleExecuteStep
  \/ BulletExecuteStep

SpecPD == InitPD /\ [][NextPD]_vars

\* the backends over both joint numberings and a world that can diverge
InitBackends == NodeInit /\ BackendsInit /\ PruneIdle

NextBackends ==
  \/ SimpleExecuteStep
  \/ BulletExecuteStep

SpecBackends == InitBackends /\ [][NextBackends]_vars

\* the description d turned by r joints: the same joints, numbered from
\* another one on
Rotate(d, r) == [ k \in 1 .. Len(d) |-> d[((k - 1 + r) % Len(d)) + 1] ]

\* the robot descriptions an engine can have loaded
DescriptionFamily ==
  UNION { { Rotate(d, r) : r \in 0 .. (Len(d) - 1) } : d \in Descriptions }

\* the joint map of BulletSimulator built, and built again, against one
\* loaded description
InitMap ==
  /\ NodeInit
  /\ PruneIdle
  /\ \E d \in DescriptionFamily : BackendsIdle(d)

NextMap == BulletBuildJointMap

SpecMap == InitMap /\ [][NextMap]_vars

\* the pruning loop of init_simple over any initial list of collision pairs
InitPrune == NodeInit /\ PdIdle /\ PruneInit

NextPrune == PruneLoop

SpecPrune == InitPrune /\ [][NextPrune]_vars

\* the loop is sequential code: an iteration that can run does run
SpecPruneFair == SpecPrune /\ WF_vars(PruneLoop)


(***************************************************************************)
(* Notions shared by the properties                                        *)
(***************************************************************************)
\* init_pybullet raised nothing and every canonical joint has a handle
Healthy ==
  /\ phase # "Uninitialized"
  /\ initError = "none"
  /\ has_j_idx
  /\ \A k \in 1 .. NJoints : j_idx[k] # None

\* a canonical joint name that the loaded description does not hold
MissingJoint ==
  /\ phase # "Uninitialized"
  /\ initError = "none"
  /\ \E k \in 1 .. NJoints : get_joint_id(urdf, joint_order[k]) = None

\* the physics steps made by init_pybullet
StartupSteps == IF initError = "none" THEN InitSteps ELSE 0

\* the targets a message carries for the twelve canonical joints
TargetsOfMsg(msg) ==
  [ k \in 1 .. NJoints |-> [ q |-> msg.motor_cmd[k].q, dq |-> msg.motor_cmd[k].dq ] ]

\* the joint state read at the start of execute_step, and the torque law
\* written out for joint k
PdLaw(pre, k) ==
  pd_args.tau_des[k] - pd_args.kp_des[k] * (pre.q[k] - pd_args.q_des[k])
                     - pd_args.kd_des[k] * (pre.v[k] - pd_args.v_des[k])

SimpleApplied == [ k \in 1 .. NJoints |-> simple_torque[6 + k] ]

BulletApplied == [ k \in 1 .. NJoints |-> bullet_forces[bullet_j_idx[k]] ]

(***************************************************************************)
(* C1                                                                      *)
(***************************************************************************)
\* C1: for every joint, the torque applied by execute_step is
\* tau_ff - kp*(q - q_des) - kd*(v - v_des) on the joint state read when
\* execute_step is called, in SimpleSimulator and in BulletSimulator, and the
\* two backends apply the same torques from the same state and arguments.
C1_TorqueLaw ==
  /\ simple_steps > 0 =>
       \A k \in 1 .. NJoints : SimpleApplied[k] = PdLaw(simple_pre, k)
  /\ bullet_steps > 0 =>
       \A k \in 1 .. NJoints : BulletApplied[k] = PdLaw(bullet_pre, k)
  /\ (simple_steps > 0 /\ bullet_steps > 0 /\ simple_pre = bullet_pre) =>
       SimpleApplied = BulletApplied

\* both backends have stepped from the same state with non-zero gains, and
\* the feedback terms change the torque
C1_Witness ==
  /\ simple_steps > 0
  /\ bullet_steps > 0
  /\ simple_pre = bullet_pre
  /\ pd_args.kp_des[1] # 0
  /\ pd_args.kd_des[1] # 0
  /\ BulletApplied # pd_args.tau_des
  /\ SimpleApplied = BulletApplied

(***************************************************************************)
(* C2                                                                      *)
(***************************************************************************)
\* C2: when commands 1 and 2 are both received before either is consumed,
\* exactly one physics step uses the fields of command 2, and every physics
\* step applies twelve joint targets that come from one single message.
C2_LastWriteWins ==
  ( /\ Healthy
    /\ phase = "Stopped"
    /\ consumed # << >>
    /\ consumed[1].id = 1
    /\ ~Malformed(consumed[1])
    /\ queue # << >>
    /\ Head(queue).id = 2
    /\ ~Malformed(Head(queue)) )
  => /\ Cardinality({ k \in DOMAIN stepLog :
                        stepLog[k] = TargetsOfMsg(MakeCmd(2, "valid")) }) = 1
     /\ \A k \in DOMAIN stepLog :
          \E n \in DOMAIN consumed : stepLog[k] = TargetsOfMsg(consumed[n])

(***************************************************************************)
(* C3                                                                      *)
(***************************************************************************)
\* C3: the first command processed by apply_cmd completes without a fault
\* and with a pacing delay of zero.
C3_FirstCommandZeroDelay ==
  ( /\ Healthy
    /\ consumed # << >>
    /\ ~Malformed(consumed[1]) )
  => /\ fault = "none"
     /\ slept # << >>
     /\ slept[1] = 0

(***************************************************************************)
(* C4                                                                      *)
(***************************************************************************)
\* C4: a malformed command is rejected without a fatal fault and leaves the
\* command state as it was: no joint target changes and no step is made.
C4_MalformedRejected ==
  [][ ( /\ Healthy
        /\ queue # << >>
        /\ Malformed(Head(queue))
        /\ consumed' # consumed )
      => /\ motors' = motors
         /\ steps' = steps
         /\ phase' = "Running"
         /\ fault' = "none" ]_vars

(***************************************************************************)
(* C5                                                                      *)
(***************************************************************************)
\* C5: when a canonical joint name has no match in the loaded description,
\* construction fails and the node never runs: nothing is published and no
\* command is consumed.
C5_MissingJointNeverRuns ==
  MissingJoint =>
    /\ phase # "Running"
    /\ published = << >>
    /\ consumed = << >>

(***************************************************************************)
(* C6                                                                      *)
(***************************************************************************)
\* C6: when init_pybullet fails, the node does not run: no timer tick and no
\* command callback is executed.
C6_InitFailureFatal ==
  (phase # "Uninitialized" /\ initError # "none") =>
    /\ phase # "Running"
    /\ ticks = 0
    /\ consumed = << >>

(***************************************************************************)
(* C7                                                                      *)
(***************************************************************************)
\* C7 as stated: with no command ever received, every timer tick makes one
\* physics step with a neutral command and publishes, and the last command
\* is a neutral command from startup on.
C7_TickStepsNeutral ==
  (Healthy /\ arrived = 0 /\ ticks >= 1) =>
    /\ steps = InitSteps + ticks
    /\ Len(published) = ticks
    /\ last_msg # None

\* C7 as amended: with no command ever received, a timer tick makes no
\* physics step and changes no joint motor; it publishes one state when
\* startup resolved the twelve joint handles and none otherwise; last_msg is
\* None from startup on.
C7_TickPublishesWithoutStep ==
  (phase # "Uninitialized" /\ arrived = 0) =>
    /\ steps = StartupSteps
    /\ stepLog = << >>
    /\ \A h \in DOMAIN motors : motors[h] = DefaultMotor
    /\ Len(published) = (IF Healthy THEN ticks ELSE 0)
    /\ last_msg = None

\* two ticks of a healthy node that never received a command
C7_Witness ==
  /\ Healthy
  /\ arrived = 0
  /\ ticks = 2
  /\ Len(published) = 2
  /\ steps = InitSteps

(***************************************************************************)
(* C8                                                                      *)
(***************************************************************************)
\* C8 as stated: apply_cmd only records the command: it makes no physics
\* step and leaves the engine as it was.
C8_CmdDoesNotStep ==
  [][ ( /\ Healthy
        /\ queue # << >>
        /\ ~Malformed(Head(queue))
        /\ consumed' # consumed )
      => /\ steps' = steps
         /\ motors' = motors
         /\ last_msg' # None ]_vars

\* C8 as amended: apply_cmd writes the targets into the joint motors and
\* makes the physics step itself: the number of physics steps after startup
\* is the number of commands whose twelve joints were applied, whatever the
\* number of timer ticks.
C8_StepsCountCommands ==
  phase # "Uninitialized" =>
    /\ steps = StartupSteps
                 + Cardinality({ n \in DOMAIN consumed :
                                   CmdFaultIndex(consumed[n]) = NJoints })
    /\ Len(stepLog) = steps - StartupSteps

\* two ticks and one applied command: one step, not two
C8_Witness ==
  /\ Healthy
  /\ ticks = 2
  /\ Len(consumed) = 1
  /\ ~Malformed(consumed[1])
  /\ steps = InitSteps + 1
  /\ stepLog = << TargetsOfMsg(consumed[1]) >>

(***************************************************************************)
(* C9                                                                      *)
(***************************************************************************)
\* C9 as stated: each processed command makes exactly one physics step and
\* then exactly one state publication, and apply_cmd returns.
C9_CmdStepsAndPublishes ==
  [][ ( /\ Healthy
        /\ queue # << >>
        /\ ~Malformed(Head(queue))
        /\ consumed' # consumed )
      => /\ steps' = steps + 1
         /\ Len(published') = Len(published) + 1
         /\ phase' = "Running" ]_vars

\* C9 as amended: each command whose twelve joints were applied makes
\* exactly one physics step inside apply_cmd and no state publication; a
\* state is published by the timer tick only.
C9_CmdStepsOnceNoPublish ==
  [][ /\ ( /\ phase = "Running"
           /\ queue # << >>
           /\ CmdFaultIndex(Head(queue)) = NJoints
           /\ consumed' # consumed )
         => /\ steps' = steps + 1
            /\ Len(stepLog') = Len(stepLog) + 1
            /\ published' = published
            /\ pub_steps' = pub_steps
      /\ published' # published => (ticks' = ticks + 1 /\ consumed' = consumed)
    ]_vars

\* a command was applied and stepped after a state had been published
C9_Witness ==
  /\ Healthy
  /\ Len(consumed) = 1
  /\ ~Malformed(consumed[1])
  /\ Len(stepLog) = 1
  /\ Len(published) = 1
  /\ steps = InitSteps + 1

(***************************************************************************)
(* C10                                                                     *)
(***************************************************************************)
\* C10 as stated: the step count observed by consecutive publications
\* increases by exactly one.
C10_PubStepsIncreaseByOne ==
  \A k \in 2 .. Len(pub_steps) : pub_steps[k] = pub_steps[k - 1] + 1

\* C10 as amended: publications are ordered by step count, never going back:
\* each publication observes the current step count, which is at least the
\* one the previous publication observed, and publishing makes no step; the
\* increase between consecutive publications is not one (a tick publishes
\* without stepping, so the same step is published again).
C10_PubStepsNeverGoBack ==
  [][ Len(pub_steps') > Len(pub_steps)
      => /\ pub_steps' = Append(pub_steps, steps)
         /\ steps' = steps
         /\ pub_steps # << >> => steps >= pub_steps[Len(pub_steps)] ]_vars

\* three publications that observed the same step count
C10_Witness ==
  /\ Len(pub_steps) = 3
  /\ pub_steps[1] = pub_steps[2]
  /\ pub_steps[2] = pub_steps[3]

(***************************************************************************)
(* C11                                                                     *)
(***************************************************************************)
\* the torque the law of simulators.py:166 gives canonical joint k for the
\* five fields msg carries for it and the joint state read after s steps
NodePdTorque(msg, k, s) ==
  msg.motor_cmd[k].tau
    - msg.motor_cmd[k].kp * (EngineQ(j_idx[k], s) - msg.motor_cmd[k].q)
    - msg.motor_cmd[k].kd * (EngineDq(j_idx[k], s) - msg.motor_cmd[k].dq)

\* C11: the actuation the node applies for a command is, for each of the
\* twelve joints, the torque tau - kp*(q - q_des) - kd*(v - v_des) of the
\* backends' execute_step, computed from the five fields of the command
\* being processed and from no older command.
C11_NodeAppliesPdLaw ==
  (Healthy /\ stepLog # << >>) =>
    LET msg == consumed[Len(consumed)]
    IN  \A k \in 1 .. NJoints :
          motors[j_idx[k]] =
            [ mode  |-> "TORQUE_CONTROL",
              force |-> NodePdTorque(msg, k, steps - 1) ]

(***************************************************************************)
(* C12                                                                     *)
(***************************************************************************)
\* where the dynamics model holds the joint of that name (1-based)
NativeIdx(names, joint_name) ==
  CHOOSE j \in 1 .. Len(names) : names[j] = joint_name

\* the engine handle of the joint of that name
HandleOf(desc, joint_name) ==
  CHOOSE h \in 0 .. (Len(desc) - 1) : desc[h + 1] = joint_name

\* C12: element i of the command arrays actuates, and element i of the
\* reported joint state describes, the i-th joint of the canonical order,
\* found by its name: in SimpleSimulator, in BulletSimulator and in the
\* node, however the backend numbers its joints.
C12_SingleIndexSpace ==
  /\ (simple_calls > 0 /\ Finite(simple_pre)) =>
       \A k \in 1 .. NJoints :
         LET n == NativeIdx(simple_names, joint_order[k])
         IN  /\ simple_torque[6 + n] =
                  pd_args.tau_des[k]
                    - pd_args.kp_des[k] * (simple_pre.q[n] - pd_args.q_des[k])
                    - pd_args.kd_des[k] * (simple_pre.v[n] - pd_args.v_des[k])
             /\ simple_q[7 + k] = simple_q[7 + n]
             /\ simple_v[6 + k] = simple_v[6 + n]
  /\ bullet_calls > 0 =>
       \A k \in 1 .. NJoints :
         LET h == HandleOf(bullet_desc, joint_order[k])
         IN  /\ bullet_forces[h] = PdLaw(bullet_pre, k)
             /\ BulletQ[k] = bullet_js[h].q
             /\ BulletV[k] = bullet_js[h].v
  /\ (Healthy /\ stepLog # << >>) =>
       \A k \in 1 .. NJoints :
         LET h == HandleOf(urdf, joint_order[k])
         IN  /\ motors[h].q = consumed[Len(consumed)].motor_cmd[k].q
             /\ motors[h].dq = consumed[Len(consumed)].motor_cmd[k].dq
  /\ (Healthy /\ published # << >>) =>
       \A k \in 1 .. NJoints :
         published[Len(published)].motor_state[k].q =
           EngineQ(HandleOf(urdf, joint_order[k]), pub_steps[Len(pub_steps)])

(***************************************************************************)
(* C13                                                                     *)
(***************************************************************************)
\* C13: building the joint map a second time against the same loaded
\* description gives the handles of the first build, element by element,
\* and every handle is the one get_joint_id of either class returns for the
\* canonical name.
C13_JointMapIdempotent ==
  bullet_builds >= 1 =>
    /\ bullet_j_idx = bullet_first_j_idx
    /\ Len(bullet_j_idx) = NJoints
    /\ \A k \in 1 .. NJoints :
         /\ bullet_j_idx[k] = bullet_get_joint_id(bullet_desc, joint_order[k])
         /\ bullet_j_idx[k] = get_joint_id(bullet_desc, joint_order[k])

\* the map was built twice against a description that numbers its joints
\* from another joint on and lacks one canonical joint
C13_Witness ==
  /\ bullet_builds = 2
  /\ bullet_desc # Go2Urdf
  /\ bullet_desc[1] # "FL_hip_joint"
  /\ \E k \in 1 .. NJoints : bullet_j_idx[k] = None
  /\ \E k \in 1 .. NJoints : bullet_j_idx[k] > 0
  /\ bullet_j_idx = bullet_first_j_idx

(***************************************************************************)
(* C14                                                                     *)
(***************************************************************************)
\* the joint state BulletSimulator reads is non-finite
BulletDiverged == bullet_calls > 0 /\ ~Finite([ q |-> BulletQ, v |-> BulletV ])

\* the joint state SimpleSimulator reads is non-finite
SimpleDiverged ==
  simple_calls > 0 /\ ~Finite([ q |-> SubSeq(simple_q, 8, Nq),
                                v |-> SubSeq(simple_v, 7, Nv) ])

\* C14: once a step has left a non-finite state behind, the backend is not
\* stepped again and the node stops with SimulationDivergedError: no further
\* execute_step and no publication happen on the invalid state.
C14_DivergenceStopsLoop ==
  [][ /\ BulletDiverged =>
           /\ bullet_steps' = bullet_steps
           /\ bullet_forces' = bullet_forces
      /\ SimpleDiverged =>
           /\ simple_steps' = simple_steps
           /\ simple_torque' = simple_torque
      /\ (Healthy /\ stepLog # << >>
            /\ \E k \in 1 .. NJoints : stepLog[Len(stepLog)][k].q = NaN) =>
           /\ published' = published
           /\ steps' = steps
           /\ fault \in { "none", "SimulationDivergedError" } ]_vars

(***************************************************************************)
(* C15                                                                     *)
(***************************************************************************)
\* C15: when apply_cmd has finished with a command, the stored previous
\* timestamp is the timestamp of that command, so that the next command
\* finds the timestamp of the one before it.
C15_PrevTimestampStored ==
  (Healthy /\ stepLog # << >>) =>
    /\ has_last_msg_time
    /\ last_msg_time = cmd_times[Len(cmd_times)]

C20_PacingNeverFaults ==
  (Healthy /\ stepLog # << >>) =>
    /\ Len(slept) = Len(stepLog)
    /\ \A n \in DOMAIN slept : slept[n] >= 0
    /\ fault = "none"
    /\ phase = "Running"

(***************************************************************************)
(* C18                                                                     *)
(***************************************************************************)
\* at least one of the two geometry objects of the pair is named 'floor'
TouchesFloor(cp) ==
  \/ GeometryObjects[cp.first + 1] = "floor"
  \/ GeometryObjects[cp.second + 1] = "floor"

\* C18: when the pruning loop has ended, the list holds exactly the pairs
\* of the initial list that touch the floor, in their initial order.
C18_PruneKeepsFloorPairs ==
  prune_pc = "done" => collisionPairs = SelectSeq(pairs0, TouchesFloor)

\* the loop has ended on a list that held a pair without the floor between
\* two pairs with it: the middle one is gone, the others are kept in order
C18_Witness ==
  /\ prune_pc = "done"
  /\ Len(pairs0) = 3
  /\ TouchesFloor(pairs0[1])
  /\ ~TouchesFloor(pairs0[2])
  /\ TouchesFloor(pairs0[3])
  /\ pairs0[1] # pairs0[3]
  /\ collisionPairs = << pairs0[1], pairs0[3] >>

(***************************************************************************)
(* C19                                                                     *)
(***************************************************************************)
\* C19: the pruning loop ends for every initial list, and each iteration
\* that does not end it either moves the index on by one over an unchanged
\* list or leaves the index and makes the list one pair shorter.
C19_PruneTerminates ==
  /\ <>(prune_pc = "done")
  /\ [][ (prune_pc = "loop" /\ prune_pc' = "loop") =>
           \/ /\ prune_i' = prune_i + 1
              /\ collisionPairs' = collisionPairs
           \/ /\ prune_i' = prune_i
              /\ Len(collisionPairs') = Len(collisionPairs) - 1 ]_vars

\* the loop has ended on a list of three pairs none of which touches the
\* floor and two of which are the same pair
C19_Witness ==
  /\ prune_pc = "done"
  /\ Len(pairs0) = 3
  /\ \A j \in 1 .. 3 : ~TouchesFloor(pairs0[j])
  /\ pairs0[1] = pairs0[2]
  /\ collisionPairs = << >>
  /\ prune_i = 0

====
